---- MODULE Spec2Model ----
(***************************************************************************)
(* A model of ARayCastRawLidar (Carla/Sensor/RayCastRawLidar.cpp): the     *)
(* configuration of the sensor (Set, CreateLasers), one simulation step    *)
(* (Tick, SimulateLidar) with its nested ParallelFor over channels and ray *)
(* indices, the accumulation of hits under the per-channel critical        *)
(* section, and the population and emission of the LidarRawData buffer.    *)
(*                                                                         *)
(* float values are exact rationals <<numerator, denominator>> with a      *)
(* positive denominator, in lowest terms: the model computes what the      *)
(* arithmetic of the code computes up to floating-point rounding.          *)
(***************************************************************************)
EXTENDS Integers, Sequences, FiniteSets, TLC

(***************************************************************************)
(* Bounds of the model.                                                    *)
(***************************************************************************)
\* the largest channel count a configuration may ask for
MaxChannels == 2
\* the number of Tick calls of a behaviour
MaxTicks == 2
\* the number of Set calls of a behaviour
MaxSets == 2

(***************************************************************************)
(* Rational arithmetic.                                                    *)
(***************************************************************************)
Abs(x) == IF x < 0 THEN -x ELSE x

RECURSIVE GCD(_, _)
GCD(a, b) == IF b = 0 THEN a ELSE GCD(b, a % b)

\* the pair p = <<n, d>> (d # 0) in lowest terms with a positive denominator
Reduced(p) ==
  LET g == GCD(Abs(p[1]), Abs(p[2]))
      s == IF p[2] < 0 THEN -1 ELSE 1
  IN  <<(s * p[1]) \div g, (s * p[2]) \div g>>

\* the rational n / d (d # 0) in lowest terms with a positive denominator;
\* n and d are evaluated once
Rat(n, d) == CHOOSE r \in {Reduced(p) : p \in {<<n, d>>}} : TRUE

RatInt(n) == <<n, 1>>
RatAdd(a, b) == Rat(a[1] * b[2] + b[1] * a[2], a[2] * b[2])
RatSub(a, b) == Rat(a[1] * b[2] - b[1] * a[2], a[2] * b[2])
RatMul(a, b) == Rat(a[1] * b[1], a[2] * b[2])
RatDiv(a, b) == Rat(a[1] * b[2], a[2] * b[1])
RatLess(a, b) == a[1] * b[2] < b[1] * a[2]
\* the integer part of a rational, rounded toward zero
RatTrunc(a) == IF a[1] >= 0 THEN a[1] \div a[2] ELSE -((-a[1]) \div a[2])

\* std::fmod: x - trunc(x / y) * y, the result has the sign of x
Fmod(x, y) == RatSub(x, RatMul(RatInt(RatTrunc(RatDiv(x, y))), y))

\* FMath::RoundHalfFromZero: the nearest integer, halves away from zero
RoundHalfFromZero(a) ==
  IF a[1] >= 0 THEN (2 * a[1] + a[2]) \div (2 * a[2])
               ELSE -((2 * (-a[1]) + a[2]) \div (2 * a[2]))

\* carla::geom::Math::Pi<float>(), as a rational
Pi == <<355, 113>>
\* carla::geom::Math::ToRadians: deg * (Pi / 180)
ToRadians(deg) == RatMul(deg, RatDiv(Pi, RatInt(180)))
\* carla::geom::Math::ToDegrees: rad * (180 / Pi)
ToDegrees(rad) == RatMul(rad, RatDiv(RatInt(180), Pi))

(***************************************************************************)
(* Inputs.                                                                 *)
(***************************************************************************)
\* the DeltaTime arguments of Tick, in seconds
DeltaTimes == {<<1, 20>>, <<1, 10>>}

\* FLidarDescription records handed to Set
Descriptions ==
  [Channels : 0 .. MaxChannels,
   PointsPerSecond : {5, 30},
   RotationFrequency : {<<15, 2>>},
   UpperFovLimit : {RatInt(10)},
   LowerFovLimit : {RatInt(-30)}]

\* FLidarDescription records that vary the field of view
FovDescriptions ==
  [Channels : 1 .. MaxChannels + 2,
   PointsPerSecond : {40},
   RotationFrequency : {RatInt(10)},
   UpperFovLimit : {RatInt(-5), RatInt(0), RatInt(10), <<31, 2>>},
   LowerFovLimit : {RatInt(-30), RatInt(-5), RatInt(0), <<21, 2>>}]

\* FLidarDescription records of one channel that vary the rotation frequency,
\* with a sensor turning the other way among them
SweepDescriptions ==
  [Channels : {1},
   PointsPerSecond : {5, 30},
   RotationFrequency : {<<-15, 2>>, RatInt(0), <<15, 2>>, RatInt(10)},
   UpperFovLimit : {RatInt(10)},
   LowerFovLimit : {RatInt(-30)}]

\* FLidarDescription records of one channel, with a rate that casts two or
\* three rays in a step and one that casts one or none
FairDescriptions ==
  [Channels : {1},
   PointsPerSecond : {5, 30},
   RotationFrequency : {<<15, 2>>},
   UpperFovLimit : {RatInt(10)},
   LowerFovLimit : {RatInt(-30)}]

\* the outcomes of one ray: PreprocessRay vetoes it, or ShootLaser reports
\* no blocking hit, or a blocking hit
Outcomes == {"veto", "miss", "hit"}

(***************************************************************************)
(* State.                                                                  *)
(***************************************************************************)
VARIABLES
  Description,               \* FLidarDescription of the sensor
  LaserAngles,               \* vertical angle of each channel, in degrees
  LidarRawData,              \* the buffer handed to the data stream
  RecordedHits,              \* per channel, the FHitResults of the step
  pc,                        \* position of the game thread
  DeltaTime,                 \* argument of the running Tick
  ChannelCount,              \* locals of SimulateLidar
  PointsToScanWithOneLaser,
  CurrentHorizontalAngle,
  AngleDistanceOfTick,
  chanTask,                  \* position of each task of the outer ParallelFor
  rayTask,                   \* position of each task of the inner ParallelFor
  Mutex,                     \* <<lock, task>>: the critical sections held
  readLock,                  \* read locks held on the physics scene
  emitted,                   \* the buffer the data stream received last
  tickNo,                    \* Tick calls so far
  setNo,                     \* Set calls so far
  rayCasts,                  \* ShootLaser calls of the running Tick
  guardedCasts,              \* those made while the scene read lock was held
  readAcquires,              \* lockRead calls of the running Tick
  readReleases,              \* unlockRead calls of the running Tick
  angleWrites,               \* SetHorizontalAngle calls of the running Tick
  sends,                     \* DataStream.Send calls of the running Tick
  stepsSinceSet,             \* Tick calls since the last Set
  dtsSinceSet                \* their DeltaTime arguments

members == <<Description, LaserAngles, LidarRawData, RecordedHits>>
locals == <<DeltaTime, ChannelCount, PointsToScanWithOneLaser,
            CurrentHorizontalAngle, AngleDistanceOfTick>>
tasks == <<chanTask, rayTask, Mutex>>
history == <<tickNo, setNo, rayCasts, guardedCasts, readAcquires, readReleases,
             angleWrites, sends, stepsSinceSet, dtsSinceSet>>
vars == <<members, locals, tasks, pc, readLock, emitted, history>>

(***************************************************************************)
(* LidarRawData (carla/sensor/s11n): a header holding the horizontal angle *)
(* in radians, the channel count and the point count of every channel,     *)
(* and the flat sequence of detections, channel after channel.             *)
(***************************************************************************)
Zeros(n) == [i \in 1 .. n |-> 0]

\* FLidarRawData(ChannelCount): a zeroed header and no points
FLidarRawData(n) ==
  [HorizontalAngle |-> RatInt(0), ChannelCount |-> n,
   PointsPerChannel |-> Zeros(n), ser_points |-> <<>>]

GetHorizontalAngle(data) == data.HorizontalAngle
SetHorizontalAngle(data, angle) == [data EXCEPT !.HorizontalAngle = angle]

\* ResetSerPoints: the header takes the counts, the points are cleared
ResetSerPoints(data, points_per_channel) ==
  [data EXCEPT
     !.PointsPerChannel =
        [i \in 1 .. data.ChannelCount |->
           IF i <= Len(points_per_channel) THEN points_per_channel[i] ELSE 0],
     !.ser_points = <<>>]

\* WritePointSync: the detection goes behind the ones written so far
WritePointSync(data, detection) ==
  [data EXCEPT !.ser_points = Append(@, detection)]

(***************************************************************************)
(* Configuration: Set and CreateLasers.                                    *)
(***************************************************************************)
\* check(NumberOfLasers > 0u)
CheckNumberOfLasersOff(NumberOfLasers) == TRUE
CheckNumberOfLasers(NumberOfLasers) == NumberOfLasers > 0

\* the divisor of DeltaAngle, with the number of lasers for the number of
\* gaps between them
AngleDivisorPerLaser(NumberOfLasers) == NumberOfLasers
\* the divisor of DeltaAngle: static_cast<float>(NumberOfLasers - 1); it is
\* used for two lasers or more, where the uint32 subtraction does not wrap
AngleDivisor(NumberOfLasers) == NumberOfLasers - 1

DeltaAngle(desc) ==
  IF desc.Channels = 1 THEN RatInt(0)
  ELSE RatDiv(RatSub(desc.UpperFovLimit, desc.LowerFovLimit),
              RatInt(AngleDivisor(desc.Channels)))

\* the array CreateLasers would leave without LaserAngles.Empty: the angles
\* emplaced behind the ones of the description before
CreateLasersNoEmpty(desc) ==
  LaserAngles \o
    [i \in 1 .. desc.Channels |->
       RatSub(desc.UpperFovLimit, RatMul(RatInt(i - 1), DeltaAngle(desc)))]

\* the array CreateLasers leaves in LaserAngles: emptied, then one angle
\* emplaced per laser
CreateLasers(desc) ==
  [i \in 1 .. desc.Channels |->
     RatSub(desc.UpperFovLimit, RatMul(RatInt(i - 1), DeltaAngle(desc)))]

\* Set(LidarDescription): Description and LidarRawData are replaced, then
\* CreateLasers runs; its failed check stops the program
Set(descs) ==
  /\ pc \in {"unset", "idle"}
  /\ setNo < MaxSets
  /\ \E desc \in descs :
       /\ Description' = desc
       /\ LidarRawData' = FLidarRawData(desc.Channels)
       /\ IF CheckNumberOfLasers(desc.Channels)
            THEN /\ LaserAngles' = CreateLasers(desc)
                 /\ pc' = "idle"
            ELSE /\ LaserAngles' = LaserAngles
                 /\ pc' = "failed"
  /\ setNo' = setNo + 1
  /\ stepsSinceSet' = 0
  /\ dtsSinceSet' = {}
  /\ UNCHANGED <<RecordedHits, locals, tasks, readLock, emitted, tickNo,
                 rayCasts, guardedCasts, readAcquires, readReleases,
                 angleWrites, sends>>

(***************************************************************************)
(* One step: Tick and SimulateLidar.                                       *)
(***************************************************************************)
\* the values PointsToScanWithOneLaser can take: the rounded quotient; with
\* no channel the quotient is not finite and its conversion to uint32 is
\* undefined
PointsToScan(desc, dt) ==
  IF desc.Channels = 0 THEN {0, 1}
  ELSE {RoundHalfFromZero(
          RatDiv(RatMul(RatInt(desc.PointsPerSecond), dt),
                 RatInt(desc.Channels)))}

\* if (PointsToScanWithOneLaser <= 0) ... return
NoEarlyReturn(points) == FALSE
NoPointsRequested(points) == points <= 0

\* ResetRecordedHits without the clear of each channel
ResizeRecordedHits(hits, Channels, MaxPointsPerChannel) ==
  [i \in 1 .. Channels |-> IF i <= Len(hits) THEN hits[i] ELSE <<>>]
\* ResetRecordedHits: resize to Channels, then clear every channel
ResetRecordedHits(hits, Channels, MaxPointsPerChannel) ==
  [i \in 1 .. Channels |-> <<>>]

\* the channel and ray-index tasks of the two nested ParallelFor calls
ChannelIds == 0 .. ChannelCount - 1
RaysOf(c) == {t \in DOMAIN rayTask : t[1] = c}

\* the critical section a ray task locks: a fresh one for every ray task
MutexPerRay(idxChannel, idxPtsOneLaser) == <<idxChannel, idxPtsOneLaser>>
\* the critical section a ray task locks: one declared outside both loops
MutexShared(idxChannel, idxPtsOneLaser) == <<>>
\* the critical section a ray task locks: the one its channel task declared
MutexOf(idxChannel, idxPtsOneLaser) == <<idxChannel>>

\* Mutex.Lock() that never waits
MutexNoWait(lock) == TRUE
\* Mutex.Lock() returns once no task holds the critical section
MutexFree(lock) == ~ \E h \in Mutex : h[1] = lock

\* the read locks held on the scene with lockRead() left out
NoLockRead(held) == held
\* the read locks held on the scene after lockRead()
LockRead(held) == held + 1

\* ParallelFor returns when every task it started has returned
NoJoin(S) == TRUE
AllDone(S) == \A t \in S : t = "done"

\* Tick up to the start of the parallel phase of SimulateLidar
TickBegin ==
  /\ pc = "idle"
  /\ tickNo < MaxTicks
  /\ \E dt \in DeltaTimes : \E points \in PointsToScan(Description, dt) :
       /\ DeltaTime' = dt
       /\ ChannelCount' = Description.Channels
       /\ PointsToScanWithOneLaser' = points
       /\ IF NoPointsRequested(points)
            THEN /\ pc' = "send"
                 /\ chanTask' = <<>>
                 /\ rayTask' = <<>>
                 /\ UNCHANGED <<members, CurrentHorizontalAngle,
                                AngleDistanceOfTick, readLock>>
                 /\ readAcquires' = 0
            ELSE IF Description.Channels # Len(LaserAngles)
            THEN \* check(ChannelCount == LaserAngles.Num())
                 /\ pc' = "failed"
                 /\ chanTask' = <<>>
                 /\ rayTask' = <<>>
                 /\ UNCHANGED <<members, CurrentHorizontalAngle,
                                AngleDistanceOfTick, readLock>>
                 /\ readAcquires' = 0
            ELSE /\ CurrentHorizontalAngle' =
                      ToDegrees(GetHorizontalAngle(LidarRawData))
                 /\ AngleDistanceOfTick' =
                      RatMul(RatMul(Description.RotationFrequency, RatInt(360)), dt)
                 /\ RecordedHits' =
                      ResetRecordedHits(RecordedHits, Description.Channels, points)
                 /\ readLock' = LockRead(readLock)
                 /\ readAcquires' = 1
                 /\ chanTask' = [c \in 0 .. Description.Channels - 1 |-> "pending"]
                 /\ rayTask' =
                      [t \in (0 .. Description.Channels - 1) \X (0 .. points - 1) |->
                         [pc |-> "pending", outcome |-> "none", slot |-> 0,
                          VertAngle |-> RatInt(0), HorizAngle |-> RatInt(0)]]
                 /\ pc' = "parallel"
                 /\ UNCHANGED <<Description, LaserAngles, LidarRawData>>
  /\ tickNo' = tickNo + 1
  /\ rayCasts' = 0
  /\ guardedCasts' = 0
  /\ readReleases' = 0
  /\ angleWrites' = 0
  /\ sends' = 0
  /\ UNCHANGED <<Mutex, emitted, setNo, stepsSinceSet, dtsSinceSet>>

\* a task of the outer ParallelFor starts: its FCriticalSection Mutex exists
ChannelStart(c) ==
  /\ pc = "parallel"
  /\ chanTask[c] = "pending"
  /\ chanTask' = [chanTask EXCEPT ![c] = "running"]
  /\ UNCHANGED <<members, locals, rayTask, Mutex, pc, readLock, emitted, history>>

\* AngleDistanceOfLaserMeasure: the angle between two rays of a channel
AngleDistanceOfLaserMeasure(distance, points) == RatDiv(distance, RatInt(points))

\* HorizAngle of a ray, counting the rays of a channel from one
HorizAngleFromOne(current, distance, points, idxPtsOneLaser) ==
  RatAdd(current, RatMul(AngleDistanceOfLaserMeasure(distance, points),
                         RatInt(idxPtsOneLaser + 1)))
\* HorizAngle of ray idxPtsOneLaser of a channel
HorizAngle(current, distance, points, idxPtsOneLaser) ==
  RatAdd(current, RatMul(AngleDistanceOfLaserMeasure(distance, points),
                         RatInt(idxPtsOneLaser)))

\* ShootLaser evaluated before PreprocessResult: called for every ray
ShootLaserAlways(o) == TRUE
\* PreprocessResult && ShootLaser(...): ShootLaser is called unless vetoed
ShootLaserCalled(o) == o # "veto"

\* the condition of the if: not vetoed, and ShootLaser returned true
WritesPoint(o) == o = "hit"

\* a task of the inner ParallelFor runs PreprocessRay and, unless vetoed,
\* ShootLaser
ShootRay(c, p) ==
  /\ pc = "parallel"
  /\ chanTask[c] = "running"
  /\ rayTask[<<c, p>>].pc = "pending"
  /\ \E o \in Outcomes :
       /\ rayTask' = [rayTask EXCEPT ![<<c, p>>] =
                        [pc |-> IF WritesPoint(o) THEN "hit" ELSE "done",
                         outcome |-> o, slot |-> 0,
                         VertAngle |-> LaserAngles[c + 1],
                         HorizAngle |-> HorizAngle(CurrentHorizontalAngle,
                                                   AngleDistanceOfTick,
                                                   PointsToScanWithOneLaser, p)]]
       /\ rayCasts' = IF ShootLaserCalled(o) THEN rayCasts + 1 ELSE rayCasts
       /\ guardedCasts' = IF ShootLaserCalled(o) /\ readLock > 0
                            THEN guardedCasts + 1 ELSE guardedCasts
  /\ UNCHANGED <<members, locals, chanTask, Mutex, pc, readLock, emitted,
                 tickNo, setNo, readAcquires, readReleases, angleWrites,
                 sends, stepsSinceSet, dtsSinceSet>>

\* Mutex.Lock(), and emplace_back reads the end of the channel's vector
LockMutex(c, p) ==
  /\ pc = "parallel"
  /\ rayTask[<<c, p>>].pc = "hit"
  /\ MutexFree(MutexOf(c, p))
  /\ Mutex' = Mutex \cup {<<MutexOf(c, p), <<c, p>>>>}
  /\ rayTask' = [rayTask EXCEPT ![<<c, p>>].pc = "append",
                                ![<<c, p>>].slot = Len(RecordedHits[c + 1])]
  /\ UNCHANGED <<members, locals, chanTask, pc, readLock, emitted, history>>

\* the actor handles a FHitResult can carry: none (HitInfo.Actor.Get() is
\* nullptr), an actor the registry does not know, and registered actors
Actors == {"nullptr", "unregistered", "car", "walker", "prop", "bus_stop"}

\* FActorRegistry::Find of the episode: the view of an actor, valid for the
\* registered ones, with the id and the semantic tags of its FActorInfo
RegistryFind(actor) ==
  CASE actor = "car" ->
         [IsValid |-> TRUE, UId |-> 7, SemanticTags |-> {"Vehicles"}]
    [] actor = "walker" ->
         [IsValid |-> TRUE, UId |-> 8, SemanticTags |-> {"Pedestrians"}]
    [] actor = "prop" ->
         [IsValid |-> TRUE, UId |-> 9, SemanticTags |-> {}]
    [] actor = "bus_stop" ->
         [IsValid |-> TRUE, UId |-> 10, SemanticTags |-> {"Poles", "TrafficSigns"}]
    [] OTHER ->
         [IsValid |-> FALSE, UId |-> 0, SemanticTags |-> {}]

\* the actor the scene puts in the way of ray p of channel c
SceneActor(c, p) ==
  LET order == <<"car", "nullptr", "bus_stop", "walker", "unregistered", "prop">>
  IN  order[((2 * c + p) % Len(order)) + 1]

\* the FHitResult of ray p of channel c in the running Tick
HitResult(c, p) ==
  [ImpactPoint |-> <<tickNo, c, p>>, Actor |-> SceneActor(c, p)]

\* the critical sections held with Mutex.Unlock() left out
NoUnlock(held, entry) == held
\* the critical sections held after Mutex.Unlock()
Unlock(held, entry) == held \ {entry}

\* WritePointAsync: emplace_back stores the hit at the end it read and moves
\* the end behind it; then Mutex.Unlock()
WritePointAsync(c, p) ==
  /\ pc = "parallel"
  /\ rayTask[<<c, p>>].pc = "append"
  /\ RecordedHits' =
       [RecordedHits EXCEPT ![c + 1] =
          Append(SubSeq(@, 1, rayTask[<<c, p>>].slot), HitResult(c, p))]
  /\ Mutex' = Unlock(Mutex, <<MutexOf(c, p), <<c, p>>>>)
  /\ rayTask' = [rayTask EXCEPT ![<<c, p>>].pc = "done"]
  /\ UNCHANGED <<Description, LaserAngles, LidarRawData, locals, chanTask, pc,
                 readLock, emitted, history>>

\* the inner ParallelFor of a channel returns and its channel task ends
ChannelJoin(c) ==
  /\ pc = "parallel"
  /\ chanTask[c] = "running"
  /\ AllDone({rayTask[t].pc : t \in RaysOf(c)})
  /\ chanTask' = [chanTask EXCEPT ![c] = "done"]
  /\ UNCHANGED <<members, locals, rayTask, Mutex, pc, readLock, emitted, history>>

\* if (labels.Num() == 1), with at least one label for exactly one
SomeLabel(labels) == Cardinality(labels) >= 1
\* if (labels.Num() == 1)
SingleLabel(labels) == Cardinality(labels) = 1

\* ComputeRawDetection: the detection of a hit. object_idx and object_tag
\* start as 0 and ECityObjectLabel::None; an actor with a valid view gives
\* its UId, and its label when it has exactly one
ComputeRawDetection(hit) ==
  LET view == RegistryFind(hit.Actor)
      found == hit.Actor # "nullptr" /\ view.IsValid
  IN  [point |-> hit.ImpactPoint,
       object_idx |-> IF found THEN view.UId ELSE 0,
       object_tag |-> IF found /\ SingleLabel(view.SemanticTags)
                        THEN CHOOSE label \in view.SemanticTags : TRUE
                        ELSE "None"]

RECURSIVE WriteDetections(_, _)
WriteDetections(data, hits) ==
  IF hits = <<>> THEN data
  ELSE WriteDetections(WritePointSync(data, ComputeRawDetection(Head(hits))),
                       Tail(hits))

RECURSIVE SaveChannels(_, _, _, _)
SaveChannels(data, hits, idxChannel, Channels) ==
  IF idxChannel >= Channels THEN data
  ELSE SaveChannels(WriteDetections(data, hits[idxChannel + 1]), hits,
                    idxChannel + 1, Channels)

\* ComputeAndSaveDetections: the count of every channel goes to the header,
\* the points are reset, then the detections are written channel by channel
ComputeAndSaveDetections(data, hits, Channels) ==
  SaveChannels(
    ResetSerPoints(data, [i \in 1 .. Channels |-> Len(hits[i])]),
    hits, 0, Channels)

\* the angle SimulateLidar would store without std::fmod
UnwrappedHorizontalAngle(current, distance) ==
  ToRadians(RatAdd(current, distance))
\* the angle SimulateLidar stores at its end
NextHorizontalAngle(current, distance) ==
  ToRadians(Fmod(RatAdd(current, distance), RatInt(360)))

\* the outer ParallelFor returns; unlockRead, ComputeAndSaveDetections and
\* SetHorizontalAngle follow
SimulateLidarEnd ==
  /\ pc = "parallel"
  /\ AllDone({chanTask[c] : c \in DOMAIN chanTask})
  /\ readLock' = readLock - 1
  /\ readReleases' = readReleases + 1
  /\ LidarRawData' =
       SetHorizontalAngle(
         ComputeAndSaveDetections(LidarRawData, RecordedHits, Description.Channels),
         NextHorizontalAngle(CurrentHorizontalAngle, AngleDistanceOfTick))
  /\ angleWrites' = angleWrites + 1
  /\ pc' = "send"
  /\ UNCHANGED <<Description, LaserAngles, RecordedHits, locals, tasks, emitted,
                 tickNo, setNo, rayCasts, guardedCasts, readAcquires, sends,
                 stepsSinceSet, dtsSinceSet>>

\* DataStream.Send(*this, LidarRawData, ...), the end of Tick
Send ==
  /\ pc = "send"
  /\ emitted' = LidarRawData
  /\ sends' = sends + 1
  /\ stepsSinceSet' = stepsSinceSet + 1
  /\ dtsSinceSet' = dtsSinceSet \cup {DeltaTime}
  /\ pc' = "idle"
  /\ UNCHANGED <<members, locals, tasks, readLock, tickNo, setNo, rayCasts,
                 guardedCasts, readAcquires, readReleases, angleWrites>>

(***************************************************************************)
(* Specifications.                                                         *)
(***************************************************************************)
\* the sensor as constructed: the default FLidarDescription, no lasers, an
\* empty buffer; Set runs before the first Tick
Init ==
  /\ Description = [Channels |-> 32, PointsPerSecond |-> 56000,
                    RotationFrequency |-> RatInt(10),
                    UpperFovLimit |-> RatInt(10), LowerFovLimit |-> RatInt(-30)]
  /\ LaserAngles = <<>>
  /\ LidarRawData = FLidarRawData(0)
  /\ RecordedHits = <<>>
  /\ pc = "unset"
  /\ DeltaTime = RatInt(0)
  /\ ChannelCount = 0
  /\ PointsToScanWithOneLaser = 0
  /\ CurrentHorizontalAngle = RatInt(0)
  /\ AngleDistanceOfTick = RatInt(0)
  /\ chanTask = <<>>
  /\ rayTask = <<>>
  /\ Mutex = {}
  /\ readLock = 0
  /\ emitted = FLidarRawData(0)
  /\ tickNo = 0
  /\ setNo = 0
  /\ rayCasts = 0
  /\ guardedCasts = 0
  /\ readAcquires = 0
  /\ readReleases = 0
  /\ angleWrites = 0
  /\ sends = 0
  /\ stepsSinceSet = 0
  /\ dtsSinceSet = {}

SetLidar == Set(Descriptions)
SetFov == Set(FovDescriptions)

Next ==
  \/ SetLidar
  \/ TickBegin
  \/ \E c \in DOMAIN chanTask : ChannelStart(c)
  \/ \E t \in DOMAIN rayTask : ShootRay(t[1], t[2])
  \/ \E t \in DOMAIN rayTask : LockMutex(t[1], t[2])
  \/ \E t \in DOMAIN rayTask : WritePointAsync(t[1], t[2])
  \/ \E c \in DOMAIN chanTask : ChannelJoin(c)
  \/ SimulateLidarEnd
  \/ Send

Spec == Init /\ [][Next]_vars

\* the configuration alone, over descriptions that vary the field of view
NextFov == SetFov

SpecFov == Init /\ [][NextFov]_vars

SetSweep == Set(SweepDescriptions)

\* the sensor over descriptions that vary the rotation frequency
NextSweep ==
  \/ SetSweep
  \/ TickBegin
  \/ \E c \in DOMAIN chanTask : ChannelStart(c)
  \/ \E t \in DOMAIN rayTask : ShootRay(t[1], t[2])
  \/ \E t \in DOMAIN rayTask : LockMutex(t[1], t[2])
  \/ \E t \in DOMAIN rayTask : WritePointAsync(t[1], t[2])
  \/ \E c \in DOMAIN chanTask : ChannelJoin(c)
  \/ SimulateLidarEnd
  \/ Send

SpecSweep == Init /\ [][NextSweep]_vars

SetFair == Set(FairDescriptions)

\* what the threads of a running Tick do: the tasks of the two ParallelFor
\* calls on the worker threads, the rest of SimulateLidar and Tick on the
\* calling thread
TickSteps ==
  \/ \E c \in DOMAIN chanTask : ChannelStart(c)
  \/ \E t \in DOMAIN rayTask : ShootRay(t[1], t[2])
  \/ \E t \in DOMAIN rayTask : LockMutex(t[1], t[2])
  \/ \E t \in DOMAIN rayTask : WritePointAsync(t[1], t[2])
  \/ \E c \in DOMAIN chanTask : ChannelJoin(c)
  \/ SimulateLidarEnd
  \/ Send

NextFair ==
  \/ SetFair
  \/ TickBegin
  \/ TickSteps

\* the threads of a running Tick are scheduled: a Tick in which some thread
\* can take a step does not stand still for ever. Set and the call of Tick
\* are the caller's and need not happen
SpecFair == Init /\ [][NextFair]_vars /\ WF_vars(TickSteps)

\* the hits a channel of three rays can have recorded, over all actors
HitsOfActors ==
  {[i \in 1 .. 3 |-> [ImpactPoint |-> <<1, 0, i - 1>>, Actor |-> a[i]]] :
     a \in [1 .. 3 -> Actors]}

\* the first step of a sensor of one channel, when its three rays have all
\* hit and its ParallelFor calls have returned, over all actors hit
InitDetections ==
  /\ Description = [Channels |-> 1, PointsPerSecond |-> 30,
                    RotationFrequency |-> <<15, 2>>,
                    UpperFovLimit |-> RatInt(10), LowerFovLimit |-> RatInt(-30)]
  /\ LaserAngles = CreateLasers(Description)
  /\ LidarRawData = FLidarRawData(1)
  /\ RecordedHits \in {<<hits>> : hits \in HitsOfActors}
  /\ pc = "parallel"
  /\ DeltaTime = <<1, 10>>
  /\ ChannelCount = 1
  /\ PointsToScanWithOneLaser = 3
  /\ CurrentHorizontalAngle = RatInt(0)
  /\ AngleDistanceOfTick = RatInt(270)
  /\ chanTask = [c \in {0} |-> "done"]
  /\ rayTask = [t \in {0} \X (0 .. 2) |->
                  [pc |-> "done", outcome |-> "hit", slot |-> t[2],
                   VertAngle |-> RatInt(10),
                   HorizAngle |-> HorizAngle(RatInt(0), RatInt(270), 3, t[2])]]
  /\ Mutex = {}
  /\ readLock = 1
  /\ emitted = FLidarRawData(0)
  /\ tickNo = 1
  /\ setNo = 1
  /\ rayCasts = 3
  /\ guardedCasts = 3
  /\ readAcquires = 1
  /\ readReleases = 0
  /\ angleWrites = 0
  /\ sends = 0
  /\ stepsSinceSet = 0
  /\ dtsSinceSet = {}

\* the detections of these hits are computed, saved and sent
NextDetections ==
  \/ SimulateLidarEnd
  \/ Send

SpecDetections == InitDetections /\ [][NextDetections]_vars

(***************************************************************************)
(* Properties.                                                             *)
(***************************************************************************)
\* a step that cast rays has left its parallel phase
Joined ==
  /\ PointsToScanWithOneLaser > 0
  /\ \/ pc = "send"
     \/ pc = "parallel" /\ \A c \in DOMAIN chanTask : chanTask[c] = "done"

\* no ray of the step was vetoed and every cast returned a blocking hit
AllRaysHit == \A t \in DOMAIN rayTask : rayTask[t].outcome = "hit"

\* the ray tasks of channel c that are inside the append
Appending(c) == {t \in RaysOf(c) : rayTask[t].pc = "append"}

\* C1: no lost writes. Once the parallel phase of a step has joined in which
\* no ray was vetoed and every cast ray returned a blocking hit, every
\* channel has recorded exactly PointsToScanWithOneLaser hits, whatever the
\* interleaving of the ray tasks was.
C1_NoLostWrites ==
  (Joined /\ AllRaysHit) =>
    /\ Len(RecordedHits) = ChannelCount
    /\ \A c \in ChannelIds : Len(RecordedHits[c + 1]) = PointsToScanWithOneLaser

\* a step of two channels with two rays each, all hits, has joined
C1_Witness ==
  /\ Joined
  /\ AllRaysHit
  /\ ChannelCount = 2
  /\ PointsToScanWithOneLaser = 2
  /\ pc = "send"

\* C2: per-channel mutual exclusion. In every state at most one ray task of
\* a channel is inside the append to that channel's RecordedHits, every task
\* inside the append holds the critical section of its channel, and no
\* critical section is held by two tasks.
C2_MutualExclusion ==
  /\ \A c \in DOMAIN chanTask : Cardinality(Appending(c)) <= 1
  /\ \A t \in DOMAIN rayTask :
       rayTask[t].pc = "append" =>
         /\ <<MutexOf(t[1], t[2]), t>> \in Mutex
         /\ rayTask[t].slot = Len(RecordedHits[t[1] + 1])
  /\ \A h1 \in Mutex : \A h2 \in Mutex : h1[1] = h2[1] => h1 = h2

\* one ray task of a channel is inside the append while another ray task of
\* the same channel, with a hit to record, waits for the critical section
C2_Witness ==
  \E t1 \in DOMAIN rayTask : \E t2 \in DOMAIN rayTask :
    /\ t1[1] = t2[1]
    /\ t1 # t2
    /\ rayTask[t1].pc = "append"
    /\ rayTask[t2].pc = "hit"
    /\ pc = "parallel"

\* PointsPerSecond * dt / Channels is below one half, so that it rounds to
\* zero (the quotient is never negative)
RoundsToZero(desc, dt) ==
  /\ desc.Channels > 0
  /\ RatLess(RatMul(RatInt(2 * desc.PointsPerSecond), dt), RatInt(desc.Channels))

\* the sweep angle LidarRawData holds, in degrees
SweepAngle == ToDegrees(GetHorizontalAngle(LidarRawData))

\* some channel holds a recorded hit
SomeRecordedHit == \E c \in DOMAIN RecordedHits : RecordedHits[c] # <<>>

\* C3: a step whose points per channel round to zero is a no-op on the scan.
\* From the call of Tick to its Send no ray is cast, the scene read lock is
\* never acquired, RecordedHits is not modified and the sweep angle stays
\* what it was before the step.
C3_UnderfilledStepIsNoOp ==
  [][/\ (tickNo' = tickNo + 1 /\ RoundsToZero(Description, DeltaTime')) =>
          /\ pc' = "send"
          /\ UNCHANGED <<RecordedHits, LidarRawData, readLock>>
          /\ rayCasts' = 0
          /\ readAcquires' = 0
          /\ angleWrites' = 0
          /\ rayTask' = <<>>
     /\ (pc = "send" /\ RoundsToZero(Description, DeltaTime)) =>
          /\ pc' = "idle"
          /\ UNCHANGED <<RecordedHits, LidarRawData, readLock, rayCasts,
                         readAcquires, angleWrites, rayTask>>
    ]_vars

\* an underfilled second step, after a step that recorded a hit and advanced
\* the sweep angle
C3_Witness ==
  /\ pc = "send"
  /\ RoundsToZero(Description, DeltaTime)
  /\ tickNo = 2
  /\ SomeRecordedHit
  /\ SweepAngle # RatInt(0)
  /\ rayCasts = 0
  /\ readAcquires = 0

\* C4: the buffer sent at the end of a step whose points per channel round
\* to zero holds no detection and a zero count for every channel.
C4_UnderfilledStepEmitsEmptyBuffer ==
  (pc = "idle" /\ sends = 1 /\ PointsToScanWithOneLaser = 0) =>
    /\ emitted.ser_points = <<>>
    /\ \A c \in DOMAIN emitted.PointsPerChannel : emitted.PointsPerChannel[c] = 0

\* (RotationFrequency * 360 * dt * N) mod 360
ExpectedSweepAngle(desc, dt, N) ==
  Fmod(RatMul(RatMul(RatMul(desc.RotationFrequency, RatInt(360)), dt), RatInt(N)),
       RatInt(360))

\* N >= 1 steps have completed since Set put the sweep angle to 0, all of
\* them with the same DeltaTime
FixedDtSteps ==
  /\ pc = "idle"
  /\ stepsSinceSet >= 1
  /\ Cardinality(dtsSinceSet) = 1

\* C5 as stated: after N consecutive steps of fixed dt from sweep angle 0 the
\* sweep angle is (RotationFrequency * 360 * dt * N) mod 360, whatever the
\* steps cast or recorded.
C5_SweepAfterAnySteps ==
  FixedDtSteps =>
    \A dt \in dtsSinceSet :
      SweepAngle = ExpectedSweepAngle(Description, dt, stepsSinceSet)

\* C5, amended: after N consecutive steps of fixed dt from sweep angle 0 the
\* sweep angle is (RotationFrequency * 360 * dt * N) mod 360 when the points
\* per channel of these steps round to 1 or more, whatever the number of rays
\* that hit, missed or were vetoed; when they round to zero the steps leave
\* the sweep angle at 0.
C5_SweepAfterCastingSteps ==
  FixedDtSteps =>
    \A dt \in dtsSinceSet :
      SweepAngle = IF RoundsToZero(Description, dt)
                     THEN RatInt(0)
                     ELSE ExpectedSweepAngle(Description, dt, stepsSinceSet)

\* two steps of the same DeltaTime have wrapped the sweep angle past 360, and
\* the second of them had a ray vetoed, a ray missing and a ray hitting
C5_Witness ==
  /\ FixedDtSteps
  /\ stepsSinceSet = 2
  /\ \A dt \in dtsSinceSet : ~ RoundsToZero(Description, dt)
  /\ SweepAngle = RatInt(180)
  /\ \E t \in DOMAIN rayTask : rayTask[t].outcome = "veto"
  /\ \E t \in DOMAIN rayTask : rayTask[t].outcome = "miss"
  /\ \E t \in DOMAIN rayTask : rayTask[t].outcome = "hit"

\* every task of the two ParallelFor calls has returned
AllTasksDone ==
  /\ \A c \in DOMAIN chanTask : chanTask[c] = "done"
  /\ \A t \in DOMAIN rayTask : rayTask[t].pc = "done"

\* C6: the sweep angle is written exactly once per ray-casting step, after
\* every channel and ray task of the step has returned. While the parallel
\* phase runs the persisted angle is still the start angle the tasks use;
\* when the step reaches Send it has been written once, to the start angle
\* advanced by the whole angular distance of the step.
C6_SweepWrittenOnceAfterJoin ==
  /\ angleWrites <= 1
  /\ angleWrites = 1 => AllTasksDone
  /\ pc = "parallel" => (angleWrites = 0 /\ SweepAngle = CurrentHorizontalAngle)
  /\ (pc = "send" /\ PointsToScanWithOneLaser > 0) =>
       /\ angleWrites = 1
       /\ SweepAngle =
            Fmod(RatAdd(CurrentHorizontalAngle, AngleDistanceOfTick), RatInt(360))

\* a step of four ray tasks has ended and moved the sweep angle
C6_Witness ==
  /\ pc = "send"
  /\ angleWrites = 1
  /\ Cardinality(DOMAIN rayTask) = 4
  /\ AllTasksDone
  /\ SweepAngle # CurrentHorizontalAngle

\* C7: the scene read lock brackets the parallel phase. It is held exactly
\* while the ParallelFor runs, every ShootLaser call is made while it is
\* held, it is released after all tasks have returned, and outside the
\* parallel phase every lockRead of the step is matched by one unlockRead.
C7_ReadLockBracketsParallelPhase ==
  /\ readLock \in {0, 1}
  /\ (pc = "parallel") <=> (readLock = 1)
  /\ rayCasts = guardedCasts
  /\ readAcquires <= 1
  /\ pc = "parallel" => (readAcquires = 1 /\ readReleases = 0)
  /\ pc # "parallel" => readAcquires = readReleases
  /\ readReleases = 1 => AllTasksDone
  /\ (\E t \in DOMAIN rayTask : rayTask[t].pc \notin {"pending", "done"}) =>
       readLock = 1

\* a step that shot three rays or more has released the lock it acquired
C7_Witness ==
  /\ pc = "send"
  /\ readAcquires = 1
  /\ readReleases = 1
  /\ readLock = 0
  /\ rayCasts >= 3
  /\ guardedCasts = rayCasts

RECURSIVE SumTo(_, _)
\* the sum of the first n entries of a sequence of numbers
SumTo(counts, n) == IF n = 0 THEN 0 ELSE counts[n] + SumTo(counts, n - 1)

\* the detections of channel c (1-based) in a buffer
Segment(data, c) ==
  SubSeq(data.ser_points,
         SumTo(data.PointsPerChannel, c - 1) + 1,
         SumTo(data.PointsPerChannel, c))

\* the rays of channel c (0-based) that returned a blocking hit in this step
HitRays(c) == {t \in RaysOf(c) : rayTask[t].outcome = "hit"}

\* the buffer holds the hits of the step that ran last, and nothing else
HoldsStep(data) ==
  /\ Len(data.PointsPerChannel) = ChannelCount
  /\ Len(data.ser_points) = SumTo(data.PointsPerChannel, ChannelCount)
  /\ \A c \in 1 .. ChannelCount :
       LET seg == Segment(data, c) IN
       /\ data.PointsPerChannel[c] = Len(RecordedHits[c])
       /\ Len(seg) = Len(RecordedHits[c])
       /\ \A i \in 1 .. Len(seg) :
            /\ seg[i].point = RecordedHits[c][i].ImpactPoint
            /\ seg[i].point[1] = tickNo
            /\ seg[i].point[2] = c - 1
       /\ {seg[i].point : i \in 1 .. Len(seg)} =
            {<<tickNo, t[1], t[2]>> : t \in HitRays(c - 1)}
       /\ Cardinality(HitRays(c - 1)) = Len(seg)

\* C8: after a step that cast rays, the buffer (as SimulateLidar leaves it and
\* as Send emits it) holds for every channel exactly one detection per hit
\* recorded for that channel in this step, in the segment of that channel,
\* with the channel's count in the header, and no detection of an earlier
\* step.
C8_BufferHoldsHitsOfStep ==
  /\ (pc = "send" /\ PointsToScanWithOneLaser > 0) => HoldsStep(LidarRawData)
  /\ (pc = "idle" /\ sends = 1 /\ PointsToScanWithOneLaser > 0) => HoldsStep(emitted)

\* the second step ends with different hit counts in its two channels, after
\* a first step whose detections were emitted
C8_Witness ==
  /\ pc = "send"
  /\ tickNo = 2
  /\ PointsToScanWithOneLaser = 2
  /\ ChannelCount = 2
  /\ emitted.ser_points # <<>>
  /\ Len(RecordedHits[1]) = 2
  /\ Len(RecordedHits[2]) = 1
  /\ \A i \in 1 .. 3 : LidarRawData.ser_points[i].point[1] = 2

\* what CreateLasers leaves in LaserAngles for the current Description: one
\* angle per channel, the first UpperFovLimit, and for two channels or more
\* the last LowerFovLimit, angle i at UpperFovLimit less i / (Channels - 1)
\* of the field of view, consecutive angles the same distance apart
BeamsOfDescription ==
  LET n == Description.Channels
      U == Description.UpperFovLimit
      L == Description.LowerFovLimit
  IN  /\ Len(LaserAngles) = n
      /\ LaserAngles[1] = U
      /\ n > 1 =>
           /\ LaserAngles[n] = L
           /\ \A i \in 1 .. n :
                RatMul(RatInt(n - 1), RatSub(U, LaserAngles[i])) =
                  RatMul(RatInt(i - 1), RatSub(U, L))
           /\ \A i \in 1 .. n - 2 :
                RatSub(LaserAngles[i], LaserAngles[i + 1]) =
                  RatSub(LaserAngles[i + 1], LaserAngles[i + 2])

\* every angle is below the one before it
StrictlyDecreasing ==
  \A i \in 1 .. Len(LaserAngles) - 1 : RatLess(LaserAngles[i + 1], LaserAngles[i])

\* C9 as stated: after Set the beams are as BeamsOfDescription says and, for
\* two channels or more, strictly decreasing.
C9_BeamsStrictlyDecreasing ==
  pc = "idle" => (BeamsOfDescription /\ StrictlyDecreasing)

\* C9, amended: after Set there are exactly Channels beams, fully replacing
\* the previous ones; for one channel the beam is UpperFovLimit; for more,
\* beam i is UpperFovLimit - i * (UpperFovLimit - LowerFovLimit) /
\* (Channels - 1), evenly spaced from UpperFovLimit to LowerFovLimit, and
\* strictly decreasing when UpperFovLimit > LowerFovLimit.
C9_BeamsOfDescription ==
  pc = "idle" =>
    /\ BeamsOfDescription
    /\ RatLess(Description.LowerFovLimit, Description.UpperFovLimit) =>
         StrictlyDecreasing

\* a second Set has rebuilt four beams over the field of view from 10 to -30
C9_Witness ==
  /\ pc = "idle"
  /\ setNo = 2
  /\ Description.Channels = 4
  /\ Description.UpperFovLimit = RatInt(10)
  /\ Description.LowerFovLimit = RatInt(-30)
  /\ LaserAngles = <<RatInt(10), <<-10, 3>>, <<-50, 3>>, RatInt(-30)>>

\* C10: Set with no channel fails in Set itself, so that no step computes
\* its points per channel or casts rays with a channel count of zero.
C10_ZeroChannelsFailsInSet ==
  /\ Description.Channels = 0 => pc = "failed"
  /\ pc \in {"parallel", "send"} => (Description.Channels > 0 /\ ChannelCount > 0)
  /\ pc = "failed" => (Description.Channels = 0 /\ readLock = 0 /\ sends <= 1)

\* a sensor that had run a step was configured again, with no channel
C10_Witness ==
  /\ pc = "failed"
  /\ Description.Channels = 0
  /\ setNo = 2
  /\ tickNo >= 1

\* the object_idx and object_tag a hit of each actor is to give
ExpectedSemantics ==
  [a \in Actors |->
     CASE a = "car" -> <<7, "Vehicles">>
       [] a = "walker" -> <<8, "Pedestrians">>
       [] a = "prop" -> <<9, "None">>
       [] a = "bus_stop" -> <<10, "None">>
       [] OTHER -> <<0, "None">>]

\* C11: semantic resolution. The detection saved for a hit has object_idx 0
\* and object_tag None when the hit carries no actor or the registry has no
\* valid view of it; otherwise object_idx is the registry's id of the actor
\* and object_tag its label when it has exactly one label, None when it has
\* none or several. The step goes on to Send whatever the lookups gave.
C11_SemanticResolution ==
  LET resolved(data) ==
        /\ Len(data.ser_points) = SumTo(data.PointsPerChannel, ChannelCount)
        /\ \A c \in 1 .. ChannelCount :
             \A i \in 1 .. Len(RecordedHits[c]) :
               LET det == Segment(data, c)[i]
                   hit == RecordedHits[c][i]
               IN  /\ det.point = hit.ImpactPoint
                   /\ <<det.object_idx, det.object_tag>> =
                        ExpectedSemantics[hit.Actor]
  IN  /\ (pc = "send" /\ PointsToScanWithOneLaser > 0) => resolved(LidarRawData)
      /\ (pc = "idle" /\ sends = 1 /\ PointsToScanWithOneLaser > 0) =>
           resolved(emitted)

\* a step has saved the detections of a hit without actor, of a hit of an
\* actor with one label and of a hit of an actor with two labels
C11_Witness ==
  /\ pc = "send"
  /\ Len(LidarRawData.ser_points) = 3
  /\ RecordedHits[1][1].Actor = "nullptr"
  /\ RecordedHits[1][2].Actor = "walker"
  /\ RecordedHits[1][3].Actor = "bus_stop"
  /\ LidarRawData.ser_points[2].object_tag = "Pedestrians"
  /\ LidarRawData.ser_points[3].object_idx = 10

\* the ray tasks of the running step that were not vetoed
CastRays == {t \in DOMAIN rayTask : rayTask[t].outcome \in {"miss", "hit"}}

\* C12: a vetoed ray never calls ShootLaser and never records a hit. In a
\* step that casts rays ShootLaser has been called once per ray that was not
\* vetoed, a vetoed ray is done without having been inside the append, and
\* every hit recorded for a channel is the hit of a ray of that channel that
\* was not vetoed and whose cast returned a blocking hit.
C12_VetoedRayIsNeverCastNorRecorded ==
  (pc \in {"parallel", "send"} /\ PointsToScanWithOneLaser > 0) =>
    /\ rayCasts = Cardinality(CastRays)
    /\ \A t \in DOMAIN rayTask :
         rayTask[t].outcome \in {"veto", "miss"} => rayTask[t].pc = "done"
    /\ \A c \in 1 .. Len(RecordedHits) :
         \A i \in 1 .. Len(RecordedHits[c]) :
           LET point == RecordedHits[c][i].ImpactPoint
               ray == <<point[2], point[3]>>
           IN  /\ point[1] = tickNo
               /\ point[2] = c - 1
               /\ ray \in DOMAIN rayTask
               /\ rayTask[ray].outcome = "hit"
               /\ rayTask[ray].pc = "done"

\* a step of two channels has ended in which a ray was vetoed, a ray missed
\* and the two other rays were recorded
C12_Witness ==
  /\ pc = "send"
  /\ ChannelCount = 2
  /\ PointsToScanWithOneLaser = 2
  /\ rayTask[<<0, 0>>].outcome = "veto"
  /\ rayTask[<<1, 1>>].outcome = "miss"
  /\ rayCasts = 3
  /\ Len(RecordedHits[1]) = 1
  /\ Len(RecordedHits[2]) = 1

\* C13: in every reachable state the persisted sweep angle, in degrees, lies
\* in [0, 360).
C13_SweepAngleInRange ==
  /\ ~ RatLess(SweepAngle, RatInt(0))
  /\ RatLess(SweepAngle, RatInt(360))

\* the ray tasks that are between Mutex.Lock() and Mutex.Unlock()
InAppend == {t \in DOMAIN rayTask : rayTask[t].pc = "append"}

\* the tasks that hold the critical section ray task t is about to lock
HoldersBefore(t) == {h[2] : h \in {g \in Mutex : g[1] = MutexOf(t[1], t[2])}}

\* C14: channels are not serialized by a shared lock: a ray task that is about
\* to lock its critical section is only ever held up by a task of its own
\* channel (tasks of two channels inside their append sections at the same
\* time is the state C14_Witness).
C14_NoLockAcrossChannels ==
  pc = "parallel" =>
    \A t \in DOMAIN rayTask :
      rayTask[t].pc = "hit" => \A h \in HoldersBefore(t) : h[1] = t[1]

C14_Witness ==
  /\ pc = "parallel"
  /\ \E t1 \in InAppend : \E t2 \in InAppend : t1[1] # t2[1]
  /\ \E t \in DOMAIN rayTask : rayTask[t].pc = "hit" /\ HoldersBefore(t) # {}

\* the ray plan as the description, the step and the persisted sweep angle
\* give it: the rays per channel and the angles of ray p of channel c
PlannedPoints ==
  RoundHalfFromZero(RatDiv(RatMul(RatInt(Description.PointsPerSecond), DeltaTime),
                           RatInt(Description.Channels)))
PlannedHorizAngle(p) ==
  RatAdd(SweepAngle,
         RatMul(RatInt(p),
                RatDiv(RatMul(RatMul(Description.RotationFrequency, RatInt(360)),
                              DeltaTime),
                       RatInt(PlannedPoints))))

\* C15: the ray plan of a step. The rays per channel are
\* round_half_away_from_zero(points_per_second * dt / channel_count); when
\* that is 1 or more there is one task per pair of a channel and a ray index
\* below it, every ray that has run was aimed at the vertical angle of its
\* channel's beam and at the horizontal angle start + p * (rotation_frequency
\* * 360 * dt / points_per_channel), start being the persisted sweep angle,
\* and at the end of the parallel phase every pair has run exactly once.
\* 4 channels at 1000 points per second, 10 Hz and dt = 0.1 give 25 rays per
\* channel over 360 degrees.
C15_RayPlan ==
  /\ PointsToScan([Channels |-> 4, PointsPerSecond |-> 1000], <<1, 10>>) = {25}
  /\ RatMul(RatMul(RatInt(10), RatInt(360)), <<1, 10>>) = RatInt(360)
  /\ (pc \in {"parallel", "send"} /\ Description.Channels > 0) =>
       PointsToScanWithOneLaser = PlannedPoints
  /\ (pc = "parallel") =>
       /\ PointsToScanWithOneLaser >= 1
       /\ DOMAIN rayTask =
            (0 .. Description.Channels - 1) \X (0 .. PlannedPoints - 1)
       /\ AngleDistanceOfTick =
            RatMul(RatMul(Description.RotationFrequency, RatInt(360)), DeltaTime)
       /\ \A t \in DOMAIN rayTask :
            rayTask[t].pc # "pending" =>
              /\ rayTask[t].VertAngle = LaserAngles[t[1] + 1]
              /\ rayTask[t].HorizAngle = PlannedHorizAngle(t[2])
       /\ AllTasksDone =>
            /\ \A t \in DOMAIN rayTask : rayTask[t].outcome \in Outcomes
            /\ rayCasts = Cardinality(CastRays)

\* the second step of a sensor of two channels has run every ray, from a
\* sweep angle that is not 0, with two rays per channel
C15_Witness ==
  /\ pc = "parallel"
  /\ AllTasksDone
  /\ tickNo = 2
  /\ Description.Channels = 2
  /\ PointsToScanWithOneLaser = 2
  /\ SweepAngle # RatInt(0)
  /\ rayTask[<<1, 1>>].HorizAngle # SweepAngle

\* some task of the parallel phase has not returned, or an append is in
\* progress
TasksInFlight ==
  \/ \E c \in DOMAIN chanTask : chanTask[c] # "done"
  \/ \E t \in DOMAIN rayTask : rayTask[t].pc # "done"
  \/ Mutex # {}

\* C16: fan-in barrier. While a channel task or a ray task of the step has
\* not returned, or an append is in progress, the step stays in its parallel
\* phase and LidarRawData is not written; the step that computes the
\* detections and fills LidarRawData is taken from a state in which every
\* task has returned and no critical section is held.
C16_FanInBarrier ==
  [][/\ (pc = "parallel" /\ TasksInFlight) =>
          /\ pc' = "parallel"
          /\ LidarRawData' = LidarRawData
     /\ (pc = "parallel" /\ pc' # "parallel") =>
          /\ ~ TasksInFlight
          /\ pc' = "send"
          /\ RecordedHits' = RecordedHits
    ]_vars

\* the detections of the second step are in LidarRawData, after all four ray
\* tasks have returned, while the buffer sent before holds the first step's
C16_Witness ==
  /\ pc = "send"
  /\ tickNo = 2
  /\ Cardinality(DOMAIN rayTask) = 4
  /\ ~ TasksInFlight
  /\ LidarRawData.ser_points # <<>>
  /\ \A i \in DOMAIN LidarRawData.ser_points :
       LidarRawData.ser_points[i].point[1] = 2
  /\ emitted.ser_points # <<>>
  /\ emitted.ser_points[1].point[1] = 1

\* C17: with one channel or more configured, a step that reaches the
\* ray-casting phase finds as many beams and as many per-channel hit
\* collections as channels are configured, and every ray task's channel index
\* is below that count: check(ChannelCount == LaserAngles.Num()) and the
\* bound asserted in WritePointAsync never fail, so the program only ever
\* stops in a Set with no channel.
C17_ChannelCountsAgree ==
  /\ pc = "failed" => Description.Channels = 0
  /\ (pc \in {"idle", "parallel", "send"}) =>
       /\ Description.Channels >= 1
       /\ Len(LaserAngles) = Description.Channels
  /\ pc = "parallel" =>
       /\ ChannelCount = Description.Channels
       /\ Len(RecordedHits) = ChannelCount
       /\ DOMAIN chanTask = 0 .. ChannelCount - 1
       /\ \A t \in DOMAIN rayTask :
            /\ t[1] < Description.Channels
            /\ t[1] + 1 \in DOMAIN RecordedHits

\* the sensor went from one channel to two between two steps, and the second
\* step is past its check and appending to the second channel
C17_Witness ==
  /\ pc = "parallel"
  /\ setNo = 2
  /\ tickNo = 2
  /\ emitted.ChannelCount = 1
  /\ Description.Channels = 2
  /\ Len(LaserAngles) = 2
  /\ rayTask[<<1, 0>>].pc = "append"

\* C18 as stated: in every state of a step no channel of RecordedHits holds
\* more hits than the step's points per channel.
C18_HitsWithinPointsOfStep ==
  pc \in {"parallel", "send"} =>
    \A c \in DOMAIN RecordedHits : Len(RecordedHits[c]) <= PointsToScanWithOneLaser

\* C18: in every state of a step that casts rays no channel of RecordedHits
\* holds more hits than the step's points per channel, which is the capacity
\* ResetRecordedHits reserved for it, and an append in progress writes below
\* that capacity: no emplace_back of the parallel phase reallocates.
C18_HitsWithinReservedCapacity ==
  (pc \in {"parallel", "send"} /\ PointsToScanWithOneLaser >= 1) =>
    /\ \A c \in DOMAIN RecordedHits :
         Len(RecordedHits[c]) <= PointsToScanWithOneLaser
    /\ \A t \in DOMAIN rayTask :
         rayTask[t].pc = "append" => rayTask[t].slot < PointsToScanWithOneLaser

\* in the second ray-casting step a channel is filled to its capacity while
\* the last ray of the other channel is inside its append
C18_Witness ==
  /\ pc = "parallel"
  /\ tickNo = 2
  /\ emitted.ser_points # <<>>
  /\ ChannelCount = 2
  /\ PointsToScanWithOneLaser = 2
  /\ Len(RecordedHits[1]) = 2
  /\ rayTask[<<1, 1>>].pc = "append"
  /\ rayTask[<<1, 1>>].slot = 1

\* what the outcomes of the rays of channel c (0-based) determine: the hits
\* of the channel and their detections
HitsOfOutcomes(c) == {HitResult(t[1], t[2]) : t \in HitRays(c)}
DetectionsOfOutcomes(c) == {ComputeRawDetection(h) : h \in HitsOfOutcomes(c)}

\* the elements of a sequence
Range(seq) == {seq[i] : i \in DOMAIN seq}

\* C19: schedule independence. Whatever the interleaving of the ray tasks
\* was, once they have joined every channel holds exactly the hits that the
\* outcomes of its rays determine, each once, the buffer holds exactly their
\* detections in the channel's segment, and the sweep angle stored is the one
\* the start angle and the description determine: the end of a step is a
\* function of the configuration, the start angle and the outcomes, and only
\* the order inside a channel is left to the schedule.
C19_ScheduleIndependence ==
  /\ Joined =>
       \A c \in ChannelIds :
         /\ Range(RecordedHits[c + 1]) = HitsOfOutcomes(c)
         /\ Len(RecordedHits[c + 1]) = Cardinality(HitsOfOutcomes(c))
  /\ (pc = "send" /\ PointsToScanWithOneLaser > 0) =>
       /\ \A c \in ChannelIds :
            /\ Range(Segment(LidarRawData, c + 1)) = DetectionsOfOutcomes(c)
            /\ LidarRawData.PointsPerChannel[c + 1] =
                 Cardinality(DetectionsOfOutcomes(c))
       /\ SweepAngle =
            Fmod(RatAdd(CurrentHorizontalAngle,
                        RatMul(RatMul(Description.RotationFrequency, RatInt(360)),
                               DeltaTime)),
                 RatInt(360))

\* a step has ended in which the second ray of a channel appended before the
\* first one
C19_Witness ==
  /\ pc = "send"
  /\ PointsToScanWithOneLaser = 2
  /\ Len(RecordedHits[1]) = 2
  /\ RecordedHits[1][1].ImpactPoint[3] = 1
  /\ RecordedHits[1][2].ImpactPoint[3] = 0
  /\ LidarRawData.ser_points[1].point[3] = 1

\* the state a Tick ends in: every task has returned, no critical section
\* and no read lock is held, and LidarRawData has been sent once
TickEnded ==
  /\ pc = "idle"
  /\ sends = 1
  /\ \A c \in DOMAIN chanTask : chanTask[c] = "done"
  /\ \A t \in DOMAIN rayTask : rayTask[t].pc = "done"
  /\ Mutex = {}
  /\ readLock = 0
  /\ readAcquires = readReleases

====
